---- MODULE Spec2Model ----
(***************************************************************************)
(* A model of websocat's core (src/src/lib.rs): the ReadDebt buffer, the   *)
(* Session engine (Session::run) and the top-level serve function.         *)
(*                                                                         *)
(* Three specifications share the variables below; each one drives one     *)
(* component and leaves the variables of the other two at rest:            *)
(*   SpecDebt    - a reader feeding chunks through ReadDebt                *)
(*   SpecSession - one Session::run with every combination of flags        *)
(*   SpecServe   - serve() over a left PeerConstructor                     *)
(***************************************************************************)
EXTENDS Integers, Sequences, FiniteSets, TLC

(***************************************************************************)
(* Bounds of the model.                                                    *)
(***************************************************************************)
\* longest chunk (one WebSocket message) the source delivers
MaxChunkLen == 3
\* largest destination buffer the reader passes
MaxBuf == 2
\* number of chunks the source delivers
MaxChunks == 3
\* bytes one direction of a session moves before its source is exhausted
MaxBytes == 2
\* elements (connections or accept errors) the left stream yields
MaxLeft == 3
\* wrappers nested around a terminal specifier
MaxWrap == 2

VARIABLES
    \* ---- ReadDebt and its reader
    debt,        \* ReadDebt.0 : Option<Vec<u8>>
    delivered,   \* concatenation of the chunks handed to process_message
    received,    \* concatenation of the bytes returned to the caller
    nchunks,     \* number of chunks taken from the source
    lastcall,    \* what the last read did: fresh chunk or drained debt, and its result
    panicked,    \* the assert_eq! of process_message failed
    \* ---- Session::run
    opts,        \* Options: unidirectional, unidirectional_reverse, exit_on_eof
    f1,          \* the forward Transfer and its copy future
    f2,          \* the reverse Transfer and its copy future
    run,         \* the future returned by Session::run
    \* ---- serve
    conf,        \* the arguments of serve: opts.oneshot and what s1 constructs
    stage,       \* how far the top-level future `prog` has got
    lpos,        \* elements taken from the left stream
    lopen,       \* the left stream (the listener) is still held
    sessions,    \* one entry per accepted left Peer, in accept order
    top,         \* result of the top-level future
    ps,          \* ProgramState: "alive" or "dropped"
    onerr,       \* on_error calls made by the top-level future (e2, e3)
    nright,      \* calls of s2.construct
    \* ---- SpecifierInfo
    tree,        \* the specifier get_info is called on
    coll         \* SpecifierInfo::collect: its position, r and ss

debtVars == <<debt, delivered, received, nchunks, lastcall, panicked>>
sessVars == <<opts, f1, f2, run>>
serveVars == <<conf, stage, lpos, lopen, sessions, top, ps, onerr, nright>>
infoVars == <<tree, coll>>

vars == <<debt, delivered, received, nchunks, lastcall, panicked,
          opts, f1, f2, run,
          conf, stage, lpos, lopen, sessions, top, ps, onerr, nright,
          tree, coll>>

(***************************************************************************)
(* Option<T>: None is the empty tuple, Some(v) the one-element tuple.      *)
(***************************************************************************)
None == <<>>
Some(v) == <<v>>
Min(a, b) == IF a <= b THEN a ELSE b

\* process_message storing the whole chunk as debt instead of buf_in[l..]
process_message_whole_debt(self0, buflen, buf_in) ==
    IF self0 # None
    THEN [panic |-> TRUE, self0 |-> self0, ret |-> 0, written |-> <<>>]
    ELSE LET l == Min(Len(buf_in), buflen)
         IN  [panic   |-> FALSE,
              self0   |-> IF l < Len(buf_in) THEN Some(buf_in) ELSE self0,
              ret     |-> l,
              written |-> SubSeq(buf_in, 1, l)]

\* a process_message that stores the rest of buf_in as debt even when
\* nothing is left of it
process_message_stores_empty_rest(self0, buflen, buf_in) ==
    IF self0 # None
    THEN [panic |-> TRUE, self0 |-> self0, ret |-> 0, written |-> <<>>]
    ELSE LET l == Min(Len(buf_in), buflen)
         IN  [panic   |-> FALSE,
              self0   |-> Some(SubSeq(buf_in, l + 1, Len(buf_in))),
              ret     |-> l,
              written |-> SubSeq(buf_in, 1, l)]

(***************************************************************************)
(* ReadDebt::process_message(&mut self, buf, buf_in), lib.rs 288-302.      *)
(* self0 is self.0 on entry and buflen is buf.len(). The result holds      *)
(* the new self.0, the returned count l, the bytes written to buf[..l],    *)
(* and whether assert_eq!(self.0, None) failed.                            *)
(***************************************************************************)
process_message(self0, buflen, buf_in) ==
    IF self0 # None
    THEN [panic |-> TRUE, self0 |-> self0, ret |-> 0, written |-> <<>>]
    ELSE LET l == Min(Len(buf_in), buflen)
         IN  [panic   |-> FALSE,
              self0   |-> IF l < Len(buf_in)
                          THEN Some(SubSeq(buf_in, l + 1, Len(buf_in)))
                          ELSE self0,
              ret     |-> l,
              written |-> SubSeq(buf_in, 1, l)]

\* a check_debt that reads the debt without taking it out of self.0
check_debt_no_take(self0, buflen) ==
    IF self0 # None
    THEN LET d == self0[1]
         IN  [res |-> Some(process_message(self0, buflen, d))]
    ELSE [res |-> None]

(***************************************************************************)
(* ReadDebt::check_debt(&mut self, buf), lib.rs 303-312.                   *)
(* self.0.take() leaves None in self.0 before process_message is called.   *)
(* res is None, or Some of process_message's result.                       *)
(***************************************************************************)
check_debt(self0, buflen) ==
    IF self0 # None
    THEN LET d == self0[1]
             taken == None
         IN  [res |-> Some(process_message(taken, buflen, d))]
    ELSE [res |-> None]

(***************************************************************************)
(* The source: the k-th byte of the stream carries the value k, so that a  *)
(* lost, duplicated or reordered byte shows in the received sequence.      *)
(***************************************************************************)
NextChunk(len) == [i \in 1..len |-> Len(delivered) + i]

DebtStart ==
    /\ debt = None
    /\ delivered = <<>>
    /\ received = <<>>
    /\ nchunks = 0
    /\ lastcall = [kind |-> "none", ret |-> 0, buflen |-> 0]
    /\ panicked = FALSE

DebtIdle == DebtStart

(***************************************************************************)
(* One read of the reader (WsReadWrapper::read, described in spec 4.5      *)
(* step 4): check_debt first; only when it returns nothing, take the next  *)
(* chunk from the source and pass it to process_message.                   *)
(***************************************************************************)
ReaderRead(buflen, len) ==
    /\ ~panicked
    /\ LET c == check_debt(debt, buflen)
       IN  IF c.res # None
           THEN LET r == c.res[1]
                IN  /\ len = 0
                    /\ debt' = r.self0
                    /\ received' = received \o r.written
                    /\ panicked' = r.panic
                    /\ lastcall' = [kind |-> "debt", ret |-> r.ret, buflen |-> buflen]
                    /\ UNCHANGED <<delivered, nchunks>>
                    /\ UNCHANGED <<sessVars, serveVars, infoVars>>
           ELSE LET chunk == NextChunk(len)
                    r == process_message(debt, buflen, chunk)
                IN  /\ nchunks < MaxChunks
                    /\ nchunks' = nchunks + 1
                    /\ delivered' = delivered \o chunk
                    /\ debt' = r.self0
                    /\ received' = received \o r.written
                    /\ panicked' = r.panic
                    /\ lastcall' = [kind |-> "fresh", ret |-> r.ret, buflen |-> buflen]
                    /\ UNCHANGED <<sessVars, serveVars, infoVars>>

NextDebt == \E buflen \in 0..MaxBuf, len \in 0..MaxChunkLen : ReaderRead(buflen, len)

\* the reader is read again with a non-empty buffer while debt is pending
DrainRead == debt # None /\ \E buflen \in 1..MaxBuf : ReaderRead(buflen, 0)


(***************************************************************************)
(* Session engine.                                                         *)
(*                                                                         *)
(* A Transfer {from, to} is a record:                                      *)
(*   st    - "idle" (held by the Session), "copying" (its copy future is   *)
(*           live), "finished" (the copy completed and the map closure     *)
(*           ran), "failed" (the copy returned an error), "dropped" (the   *)
(*           future was dropped before completing)                         *)
(*   moved - bytes pumped from `from` to `to`                              *)
(*   shut  - calls of shutdown() on `to`                                   *)
(*   rel   - both halves have been dropped                                 *)
(***************************************************************************)
NewTransfer == [st |-> "idle", moved |-> 0, shut |-> 0, rel |-> FALSE]

\* what one poll of a copy future can find on its two halves
CopyOutcome == {"notready", "moved", "eof", "error"}

(***************************************************************************)
(* One poll of my_copy::copy(from, to, true): NotReady with or without a   *)
(* byte pumped, Ready at end of input, or the I/O error of either half.    *)
(***************************************************************************)
copy(tr, o) ==
    CASE o = "notready" -> [fut |-> tr, poll |-> "NotReady"]
      [] o = "moved"    -> [fut |-> [tr EXCEPT !.moved = @ + 1], poll |-> "NotReady"]
      [] o = "eof"      -> [fut |-> tr, poll |-> "Ready"]
      [] o = "error"    -> [fut |-> [tr EXCEPT !.st = "failed"], poll |-> "Err"]

\* a map closure that drops the halves without shutting the writer down
copy_then_release_only(tr, o) ==
    LET c == copy(tr, o)
    IN  IF c.poll = "Ready"
        THEN [fut  |-> [c.fut EXCEPT !.st = "finished", !.rel = TRUE],
              poll |-> "Ready"]
        ELSE c

(***************************************************************************)
(* f1 / f2 of Session::run, lib.rs 371-384: the copy future mapped by the  *)
(* closure that shuts the writer down and drops both halves.               *)
(***************************************************************************)
copy_then_shutdown(tr, o) ==
    LET c == copy(tr, o)
    IN  IF c.poll = "Ready"
        THEN [fut  |-> [c.fut EXCEPT !.st = "finished", !.shut = @ + 1, !.rel = TRUE],
              poll |-> "Ready"]
        ELSE c

\* a drop that shuts the writer down before releasing the halves
drop_future_with_shutdown(tr) ==
    CASE tr.st \in {"idle", "copying"} ->
            [tr EXCEPT !.st = "dropped", !.shut = @ + 1, !.rel = TRUE]
      [] tr.st = "failed"              -> [tr EXCEPT !.rel = TRUE]
      [] OTHER                         -> tr

\* std::mem::drop of a copy future: its halves go with it, without a shutdown
drop_future(tr) ==
    CASE tr.st \in {"idle", "copying"} -> [tr EXCEPT !.st = "dropped", !.rel = TRUE]
      [] tr.st = "failed"              -> [tr EXCEPT !.rel = TRUE]
      [] OTHER                         -> tr

\* a join that keeps the other side running after an error and reports the
\* error only when both sides have settled
join_poll_waits_after_error(a, b, o1, o2) ==
    LET pa == IF a.st = "copying" THEN copy_then_shutdown(a, o1)
              ELSE [fut |-> a, poll |-> IF a.st = "failed" THEN "Err" ELSE "Ready"]
        pb == IF b.st = "copying" THEN copy_then_shutdown(b, o2)
              ELSE [fut |-> b, poll |-> IF b.st = "failed" THEN "Err" ELSE "Ready"]
    IN  [a |-> pa.fut, b |-> pb.fut,
         res |-> IF pa.poll = "NotReady" \/ pb.poll = "NotReady" THEN "pending"
                 ELSE IF pa.poll = "Err" \/ pb.poll = "Err" THEN "err"
                 ELSE "ok"]

\* a join that is ready as soon as either side is
join_poll_either(a, b, o1, o2) ==
    LET pa == IF a.st = "copying" THEN copy_then_shutdown(a, o1)
              ELSE [fut |-> a, poll |-> "Ready"]
        pb == IF b.st = "copying" THEN copy_then_shutdown(b, o2)
              ELSE [fut |-> b, poll |-> "Ready"]
    IN  [a |-> pa.fut, b |-> pb.fut,
         res |-> IF pa.poll = "Err" \/ pb.poll = "Err" THEN "err"
                 ELSE IF pa.poll = "Ready" \/ pb.poll = "Ready" THEN "ok"
                 ELSE "pending"]

(***************************************************************************)
(* f1.join(f2), lib.rs 392-398 (futures 0.1 Join): polls f1 then f2, each  *)
(* only while it has not completed; the first error drops both and is the  *)
(* result; Ready once both have completed.                                 *)
(***************************************************************************)
join_poll(a, b, o1, o2) ==
    LET pa == IF a.st = "copying" THEN copy_then_shutdown(a, o1)
              ELSE [fut |-> a, poll |-> "Ready"]
    IN  IF pa.poll = "Err"
        THEN [a |-> drop_future(pa.fut), b |-> drop_future(b), res |-> "err"]
        ELSE LET pb == IF b.st = "copying" THEN copy_then_shutdown(b, o2)
                       ELSE [fut |-> b, poll |-> "Ready"]
             IN  IF pb.poll = "Err"
                 THEN [a |-> drop_future(pa.fut), b |-> drop_future(pb.fut), res |-> "err"]
                 ELSE [a |-> pa.fut, b |-> pb.fut,
                       res |-> IF pa.poll = "Ready" /\ pb.poll = "Ready"
                               THEN "ok" ELSE "pending"]

\* a select that reports success whichever way the first side ended
select_poll_swallows_error(a, b, o1, o2) ==
    LET pa == copy_then_shutdown(a, o1)
    IN  IF pa.poll # "NotReady"
        THEN [a |-> drop_future(pa.fut), b |-> drop_future(b), res |-> "ok"]
        ELSE LET pb == copy_then_shutdown(b, o2)
             IN  IF pb.poll # "NotReady"
                 THEN [a |-> drop_future(pa.fut), b |-> drop_future(pb.fut), res |-> "ok"]
                 ELSE [a |-> pa.fut, b |-> pb.fut, res |-> "pending"]

\* a select that waits for both sides, as join does
select_poll_as_join(a, b, o1, o2) == join_poll(a, b, o1, o2)

(***************************************************************************)
(* f1.select(f2), lib.rs 399-405 (futures 0.1 Select): polls f1, and f2    *)
(* only if f1 is not ready; the first to complete or fail is the result    *)
(* and the closures |(_, _)| and |(x, _)| drop the other.                  *)
(***************************************************************************)
select_poll(a, b, o1, o2) ==
    LET pa == copy_then_shutdown(a, o1)
    IN  IF pa.poll # "NotReady"
        THEN [a |-> drop_future(pa.fut), b |-> drop_future(b),
              res |-> IF pa.poll = "Ready" THEN "ok" ELSE "err"]
        ELSE LET pb == copy_then_shutdown(b, o2)
             IN  IF pb.poll # "NotReady"
                 THEN [a |-> drop_future(pa.fut), b |-> drop_future(pb.fut),
                       res |-> IF pb.poll = "Ready" THEN "ok" ELSE "err"]
                 ELSE [a |-> pa.fut, b |-> pb.fut, res |-> "pending"]

\* a single direction: f1.map_err(..) or f2.map_err(..), lib.rs 406-413
single_poll(a, o) ==
    LET pa == copy_then_shutdown(a, o)
    IN  [fut |-> pa.fut,
         res |-> CASE pa.poll = "Ready" -> "ok"
                   [] pa.poll = "Err"   -> "err"
                   [] OTHER             -> "pending"]

\* a match that looks at exit_on_eof before the unidirectional flags
Arm_eeof_first(o) ==
    CASE o.eeof              -> "select"
      [] ~o.unif /\ ~o.unir -> "join"
      [] o.unif /\ ~o.unir  -> "forward"
      [] ~o.unif /\ o.unir  -> "reverse"
      [] o.unif /\ o.unir   -> "none"

\* the arm of `match (unif, unir, eeof)` that Session::run takes, lib.rs 391-420
Arm(o) ==
    CASE ~o.unif /\ ~o.unir /\ ~o.eeof -> "join"
      [] ~o.unif /\ ~o.unir /\ o.eeof  -> "select"
      [] o.unif /\ ~o.unir             -> "forward"
      [] ~o.unif /\ o.unir             -> "reverse"
      [] o.unif /\ o.unir              -> "none"

SessionIdle ==
    /\ opts = [unif |-> FALSE, unir |-> FALSE, eeof |-> FALSE]
    /\ f1 = NewTransfer
    /\ f2 = NewTransfer
    /\ run = "idle"

\* Session::new(peer1, peer2, opts), lib.rs 422-434, for any Options
SessionStart ==
    /\ opts \in [unif : BOOLEAN, unir : BOOLEAN, eeof : BOOLEAN]
    /\ f1 = NewTransfer
    /\ f2 = NewTransfer
    /\ run = "new"

(***************************************************************************)
(* Session::run(self), lib.rs 370-421: both copy futures are created,      *)
(* then the arm of the match drops the direction it does not run.          *)
(***************************************************************************)
run_f1(o) ==
    LET f == [NewTransfer EXCEPT !.st = "copying"]
    IN  IF Arm(o) \in {"reverse", "none"} THEN drop_future(f) ELSE f

run_f2(o) ==
    LET f == [NewTransfer EXCEPT !.st = "copying"]
    IN  IF Arm(o) \in {"forward", "none"} THEN drop_future(f) ELSE f

SessionRun ==
    /\ run = "new"
    /\ f1' = run_f1(opts)
    /\ f2' = run_f2(opts)
    /\ run' = "pending"
    /\ UNCHANGED opts
    /\ UNCHANGED <<debtVars, serveVars, infoVars>>

\* one poll of the future Session::run returned
run_poll(o, a, b, o1, o2) ==
    CASE Arm(o) = "join"    -> join_poll(a, b, o1, o2)
      [] Arm(o) = "select"  -> select_poll(a, b, o1, o2)
      [] Arm(o) = "forward" -> LET p == single_poll(a, o1)
                               IN  [a |-> p.fut, b |-> b, res |-> p.res]
      [] Arm(o) = "reverse" -> LET p == single_poll(b, o2)
                               IN  [a |-> a, b |-> p.fut, res |-> p.res]
      [] Arm(o) = "none"    -> [a |-> a, b |-> b, res |-> "ok"]

\* the outcomes a poll of transfer tr can have: a source of MaxBytes bytes
Outcomes(tr) ==
    IF tr.st # "copying" THEN {"notready"}
    ELSE IF tr.moved < MaxBytes THEN CopyOutcome ELSE CopyOutcome \ {"moved"}

SessionPoll(o1, o2) ==
    /\ run = "pending"
    /\ LET p == run_poll(opts, f1, f2, o1, o2)
       IN  /\ f1' = p.a
           /\ f2' = p.b
           /\ run' = p.res
    /\ UNCHANGED opts
    /\ UNCHANGED <<debtVars, serveVars, infoVars>>

NextSession ==
    \/ SessionRun
    \/ \E o1 \in Outcomes(f1), o2 \in Outcomes(f2) : SessionPoll(o1, o2)


(***************************************************************************)
(* PeerConstructor, lib.rs 248-251.                                        *)
(*                                                                         *)
(* An element is what a future or a stream yields: a Peer ("peer": a byte  *)
(* connection whose client will complete the WebSocket handshake,          *)
(* "peer_badreq": a byte connection whose client will not, "ws_peer": an   *)
(* upgraded connection) or an error ("connect_err", "handshake_err").      *)
(* A future is [result, consumed]: its result ("panic" if resolving it     *)
(* panics, "never" if it stays NotReady) and how many elements of an       *)
(* underlying stream resolving it takes. A stream is its elements in       *)
(* order and whether it ends after them (Ok(None)) or stays NotReady.      *)
(***************************************************************************)
IsPeer(e) == e \in {"peer", "peer_badreq", "ws_peer"}
IsErr(e) == e \in {"connect_err", "handshake_err"}

ServeOnce(fut) == [kind |-> "ServeOnce", fut |-> fut]
ServeMultipleTimes(elems, ends) ==
    [kind |-> "ServeMultipleTimes", elems |-> elems, ends |-> ends]
Future(r) == [result |-> r, consumed |-> 0]

\* x.and_then(f) on one element: f runs on a Peer, an error passes through.
\* f is a function from Peers to the result of the future it returns.
and_then(e, f) == IF IsPeer(e) THEN f[e] ELSE e

\* a map that maps a future and hands a stream on as it is
map_once_only(pc, f) ==
    IF pc.kind = "ServeOnce"
    THEN ServeOnce([pc.fut EXCEPT !.result = and_then(@, f)])
    ELSE pc

(***************************************************************************)
(* PeerConstructor::map(self, f), lib.rs 254-265.                          *)
(***************************************************************************)
map(pc, f) ==
    IF pc.kind = "ServeOnce"
    THEN ServeOnce([pc.fut EXCEPT !.result = and_then(@, f)])
    ELSE ServeMultipleTimes([i \in DOMAIN pc.elems |-> and_then(pc.elems[i], f)],
                            pc.ends)

\* a get_only_first_conn that skips failed elements and resolves with the
\* first successful one
get_only_first_conn_skips_errors(pc) ==
    IF pc.kind = "ServeMultipleTimes"
    THEN IF \E k \in DOMAIN pc.elems : IsPeer(pc.elems[k])
         THEN LET k == CHOOSE k \in DOMAIN pc.elems :
                          IsPeer(pc.elems[k]) /\ \A j \in 1..(k - 1) : ~IsPeer(pc.elems[j])
              IN  [result |-> pc.elems[k], consumed |-> k]
         ELSE IF pc.elems = <<>>
              THEN [result |-> IF pc.ends THEN "panic" ELSE "never", consumed |-> 0]
              ELSE [result |-> pc.elems[1], consumed |-> 1]
    ELSE pc.fut

(***************************************************************************)
(* PeerConstructor::get_only_first_conn(self), lib.rs 267-280.             *)
(* stre.into_future() resolves with the first item of the stream, be it    *)
(* Ok(Some(peer)), Ok(None) (the expect panics) or Err(e); the rest of     *)
(* the stream is dropped by the closures.                                  *)
(***************************************************************************)
get_only_first_conn(pc) ==
    IF pc.kind = "ServeMultipleTimes"
    THEN IF pc.elems = <<>>
         THEN [result |-> IF pc.ends THEN "panic" ELSE "never", consumed |-> 0]
         ELSE [result |-> pc.elems[1], consumed |-> 1]
    ELSE pc.fut

\* ws_upgrade_peer(inner_peer, mode1), ws_server_peer.rs 32-62
ws_upgrade_peer(p) == IF p = "peer" THEN "ws_peer" ELSE "handshake_err"

\* WsUpgrade::construct, ws_server_peer.rs 19-27
WsUpgrade_construct(inner) ==
    map(inner, [p \in {"peer", "peer_badreq", "ws_peer"} |-> ws_upgrade_peer(p)])

\* what the left specifier s1 constructs: a transport, bare or under WsUpgrade
s1_construct(c) == IF c.wrapped THEN WsUpgrade_construct(c.raw) ELSE c.raw

\* a serve that does not look at opts.oneshot
serve_left_ignores_oneshot(c) == s1_construct(c)

\* serve, lib.rs 464-468: the left PeerConstructor the match is made on
serve_left(c) ==
    LET left == s1_construct(c)
    IN  IF c.oneshot THEN ServeOnce(get_only_first_conn(left)) ELSE left

\* sequences over S of length at most n
SeqUpTo(S, n) == UNION {[1..k -> S] : k \in 0..n}

RawElem(wrapped) ==
    IF wrapped THEN {"peer", "peer_badreq", "connect_err"} ELSE {"peer", "connect_err"}

RawLeft(wrapped) ==
    {ServeOnce(Future(r)) : r \in RawElem(wrapped)}
        \cup {ServeMultipleTimes(es, ends) :
                 es \in SeqUpTo(RawElem(wrapped), MaxLeft), ends \in BOOLEAN}

\* what s2.construct(..) may return: a future or a stream with a first element
RightConstructors ==
    {ServeOnce(Future("peer")), ServeOnce(Future("connect_err")),
     ServeMultipleTimes(<<"peer">>, FALSE),
     ServeMultipleTimes(<<"connect_err", "peer">>, FALSE)}

\* the configuration held while serve has not been called (stage = "idle")
NoConf == [oneshot |-> FALSE, wrapped |-> FALSE, raw |-> ServeOnce(Future("never"))]

ServeIdle ==
    /\ conf = NoConf
    /\ stage = "idle"
    /\ lpos = 0
    /\ lopen = FALSE
    /\ sessions = <<>>
    /\ top = "idle"
    /\ ps = "alive"
    /\ onerr = 0
    /\ nright = 0

(***************************************************************************)
(* serve(h, s1, s2, opts, onerror) up to `prog`, lib.rs 449-470:           *)
(* ProgramState is created, the left side constructed and, with oneshot,   *)
(* collapsed; nothing has been polled yet.                                 *)
(***************************************************************************)
ServeStart ==
    /\ \E oneshot \in BOOLEAN, wrapped \in BOOLEAN :
          \E raw \in RawLeft(wrapped) :
              conf = [oneshot |-> oneshot, wrapped |-> wrapped, raw |-> raw]
    /\ stage = IF serve_left(conf).kind = "ServeOnce" THEN "left" ELSE "accepting"
    /\ lpos = 0
    /\ lopen = (s1_construct(conf).kind = "ServeMultipleTimes")
    /\ sessions = <<>>
    /\ top = "pending"
    /\ ps = "alive"
    /\ onerr = 0
    /\ nright = 0

NewSession(l) == [left |-> l, st |-> "right", errs |-> 0]

\* an accept step that constructs the right side for the first connection
\* only and lets later sessions share it
MultiAccept_reuses_right ==
    /\ stage = "accepting"
    /\ lpos < Len(serve_left(conf).elems)
    /\ LET e == serve_left(conf).elems[lpos + 1]
       IN  /\ lpos' = lpos + 1
           /\ IF IsPeer(e)
              THEN /\ sessions' = Append(sessions, NewSession(lpos + 1))
                   /\ nright' = IF sessions = <<>> THEN nright + 1 ELSE nright
                   /\ UNCHANGED <<stage, top, onerr>>
              ELSE /\ stage' = "done"
                   /\ top' = "err"
                   /\ onerr' = onerr + 1
                   /\ UNCHANGED <<sessions, nright>>
    /\ UNCHANGED <<conf, lopen, ps>>
    /\ UNCHANGED <<debtVars, sessVars, infoVars>>

(***************************************************************************)
(* ServeMultipleTimes arm, lib.rs 471-488.                                 *)
(***************************************************************************)
\* for_each takes the next element of the left stream: a Peer goes through
\* the map closure (s2.construct, h1.spawn); an error ends for_each and
\* runner.map_err calls e2.
MultiAccept ==
    /\ stage = "accepting"
    /\ lpos < Len(serve_left(conf).elems)
    /\ LET e == serve_left(conf).elems[lpos + 1]
       IN  /\ lpos' = lpos + 1
           /\ IF IsPeer(e)
              THEN /\ sessions' = Append(sessions, NewSession(lpos + 1))
                   /\ nright' = nright + 1
                   /\ UNCHANGED <<stage, top, onerr>>
              ELSE /\ stage' = "done"
                   /\ top' = "err"
                   /\ onerr' = onerr + 1
                   /\ UNCHANGED <<sessions, nright>>
    /\ UNCHANGED <<conf, lopen, ps>>
    /\ UNCHANGED <<debtVars, sessVars, infoVars>>

\* the left stream ends: for_each is Ready
MultiEnd ==
    /\ stage = "accepting"
    /\ lpos = Len(serve_left(conf).elems)
    /\ serve_left(conf).ends
    /\ stage' = "done"
    /\ top' = "ok"
    /\ UNCHANGED <<conf, lpos, lopen, sessions, ps, onerr, nright>>
    /\ UNCHANGED <<debtVars, sessVars, infoVars>>

\* the spawned task: the right future resolves; a Peer starts the Session,
\* an error goes to e1_1 (lib.rs 477-483)
task_right(sess, r) ==
    IF IsPeer(r) THEN [sess EXCEPT !.st = "running"]
    ELSE [sess EXCEPT !.st = "err", !.errs = @ + 1]

TaskRight(i, rc) ==
    /\ serve_left(conf).kind = "ServeMultipleTimes"
    /\ i \in DOMAIN sessions
    /\ sessions[i].st = "right"
    /\ sessions' = [sessions EXCEPT ![i] = task_right(@, get_only_first_conn(rc).result)]
    /\ UNCHANGED <<conf, stage, lpos, lopen, top, ps, onerr, nright>>
    /\ UNCHANGED <<debtVars, sessVars, infoVars>>

\* a task whose error is not passed to on_error
task_finish_unreported(sess, outcome) ==
    IF outcome = "ok" THEN [sess EXCEPT !.st = "ok"]
    ELSE [sess EXCEPT !.st = "err"]

\* the spawned task: s.run() resolves; an error goes to e1_1 (lib.rs 480-483)
task_finish(sess, outcome) ==
    IF outcome = "ok" THEN [sess EXCEPT !.st = "ok"]
    ELSE [sess EXCEPT !.st = "err", !.errs = @ + 1]

TaskFinish(i, outcome) ==
    /\ serve_left(conf).kind = "ServeMultipleTimes"
    /\ i \in DOMAIN sessions
    /\ sessions[i].st = "running"
    /\ sessions' = [sessions EXCEPT ![i] = task_finish(@, outcome)]
    /\ UNCHANGED <<conf, stage, lpos, lopen, top, ps, onerr, nright>>
    /\ UNCHANGED <<debtVars, sessVars, infoVars>>

(***************************************************************************)
(* ServeOnce arm, lib.rs 489-503.                                          *)
(***************************************************************************)
\* a ServeOnce arm that calls s2.construct whatever peer1c resolves with
OnceLeft_constructs_right_anyway ==
    /\ stage = "left"
    /\ LET fut == serve_left(conf).fut
       IN  /\ fut.result # "never"
           /\ lpos' = fut.consumed
           /\ lopen' = FALSE
           /\ nright' = nright + 1
           /\ IF IsPeer(fut.result)
              THEN /\ sessions' = <<NewSession(fut.consumed)>>
                   /\ stage' = "body"
                   /\ UNCHANGED <<top, ps, onerr>>
              ELSE /\ stage' = "done"
                   /\ ps' = IF fut.result = "panic" THEN ps ELSE "dropped"
                   /\ top' = IF fut.result = "panic" THEN "panic" ELSE "err"
                   /\ onerr' = IF fut.result = "panic" THEN onerr ELSE onerr + 1
                   /\ UNCHANGED sessions
    /\ UNCHANGED conf
    /\ UNCHANGED <<debtVars, sessVars, infoVars>>

\* peer1c resolves. A Peer runs the and_then closure: s2.construct with
\* &mut ps, then ps moves on into the closure awaiting peer2. An error
\* drops the closure (and ps with it) and runner.map_err calls e3. When
\* the expect of get_only_first_conn panics, the panic leaves the poll
\* before and_then has taken its closure: ps stays in prog.
OnceLeft ==
    /\ stage = "left"
    /\ LET fut == serve_left(conf).fut
       IN  /\ fut.result # "never"
           /\ lpos' = fut.consumed
           /\ lopen' = FALSE
           /\ IF IsPeer(fut.result)
              THEN /\ sessions' = <<NewSession(fut.consumed)>>
                   /\ nright' = nright + 1
                   /\ stage' = "body"
                   /\ UNCHANGED <<top, ps, onerr>>
              ELSE /\ stage' = "done"
                   /\ ps' = IF fut.result = "panic" THEN ps ELSE "dropped"
                   /\ top' = IF fut.result = "panic" THEN "panic" ELSE "err"
                   /\ onerr' = IF fut.result = "panic" THEN onerr ELSE onerr + 1
                   /\ UNCHANGED <<sessions, nright>>
    /\ UNCHANGED conf
    /\ UNCHANGED <<debtVars, sessVars, infoVars>>

\* ps not captured by the closure of s.run().map(..): it is dropped when the
\* and_then closure returns, before the Session has run
ps_dropped_with_closure(p) == "dropped"

\* when ProgramState is dropped once peer2 has arrived and the Session runs:
\* it is held by the closure of s.run().map(..), so not yet (lib.rs 495-499)
ps_when_session_starts(p) == p

\* the right future resolves: a Peer starts the Session; an error drops the
\* closure holding ps and runner.map_err calls e3
OnceRight(rc) ==
    /\ stage = "body"
    /\ sessions[1].st = "right"
    /\ LET r == get_only_first_conn(rc).result
       IN  IF IsPeer(r)
           THEN /\ sessions' = [sessions EXCEPT ![1].st = "running"]
                /\ ps' = ps_when_session_starts(ps)
                /\ UNCHANGED <<stage, top, onerr>>
           ELSE /\ sessions' = [sessions EXCEPT ![1].st = "err"]
                /\ ps' = "dropped"
                /\ stage' = "done"
                /\ top' = "err"
                /\ onerr' = onerr + 1
    /\ UNCHANGED <<conf, lpos, lopen, nright>>
    /\ UNCHANGED <<debtVars, sessVars, infoVars>>

\* s.run() resolves: on success the map closure drops ps; on error Map
\* drops the closure, and ps with it, and runner.map_err calls e3
OnceFinish(outcome) ==
    /\ stage = "body"
    /\ sessions[1].st = "running"
    /\ sessions' = [sessions EXCEPT ![1].st = outcome]
    /\ ps' = "dropped"
    /\ stage' = "done"
    /\ top' = outcome
    /\ onerr' = IF outcome = "err" THEN onerr + 1 ELSE onerr
    /\ UNCHANGED <<conf, lpos, lopen, nright>>
    /\ UNCHANGED <<debtVars, sessVars, infoVars>>(***************************************************************************)
(* The owner of `prog` (the caller of serve, which runs it on the event    *)
(* loop) drops the future once it has completed. In the ServeMultipleTimes *)
(* arm ps was moved into the closure of stream.map (lib.rs 473-477), which *)
(* the future owns together with the left stream: both go with it. The     *)
(* spawned tasks hold no reference to ps. In the ServeOnce arm ps is still *)
(* in the future only after the panic of get_only_first_conn, in the       *)
(* and_then closure that was never taken (lib.rs 491).                     *)
(***************************************************************************)
DropProg ==
    /\ stage = "done"
    /\ ps = "alive"
    /\ ps' = "dropped"
    /\ lopen' = FALSE
    /\ UNCHANGED <<conf, stage, lpos, sessions, top, onerr, nright>>
    /\ UNCHANGED <<debtVars, sessVars, infoVars>>

NextServe ==
    \/ MultiAccept
    \/ MultiEnd
    \/ DropProg
    \/ \E i \in 1..MaxLeft, rc \in RightConstructors : TaskRight(i, rc)
    \/ \E i \in 1..MaxLeft, outcome \in {"ok", "err"} : TaskFinish(i, outcome)
    \/ OnceLeft
    \/ \E rc \in RightConstructors : OnceRight(rc)
    \/ \E outcome \in {"ok", "err"} : OnceFinish(outcome)

(***************************************************************************)
(* Specifier trees and SpecifierInfo, lib.rs 89-152 and 177-221.           *)
(*                                                                         *)
(* A terminal specifier carries what its specifier_boilerplate! declares;  *)
(* WsUpgrade(inner) is the wrapper of ws_server_peer.rs 17-30.             *)
(***************************************************************************)
SpecifierType == {"Stdio", "Reuser", "Other"}

Terminals ==
    [kind : {"Terminal"}, multiconnect : BOOLEAN, global : BOOLEAN, typ : SpecifierType]

WsUpgrade(inner) == [kind |-> "WsUpgrade", inner |-> inner]

RECURSIVE Trees(_)
Trees(n) ==
    IF n = 0 THEN Terminals
    ELSE Trees(n - 1) \cup {WsUpgrade(t) : t \in Trees(n - 1)}

\* is_multiconnect: the boilerplate's constant, or proxy_is_multiconnect (lib.rs 219)
RECURSIVE is_multiconnect(_)
is_multiconnect(s) ==
    IF s.kind = "WsUpgrade" THEN is_multiconnect(s.inner) ELSE s.multiconnect

\* uses_global_state: WsUpgrade is noglobalstate (ws_server_peer.rs 28)
uses_global_state(s) == IF s.kind = "WsUpgrade" THEN FALSE ELSE s.global

\* get_type: WsUpgrade is typ=Other (ws_server_peer.rs 28)
get_type(s) == IF s.kind = "WsUpgrade" THEN "Other" ELSE s.typ

\* Specifier::get_info_without_subspecs, lib.rs 145-151
get_info_without_subspecs(s) ==
    [multiconnect      |-> is_multiconnect(s),
     uses_global_state |-> uses_global_state(s),
     typ               |-> get_type(s)]

\* the trait's default get_info used by every node: no subspecifier
get_info_default_only(s) ==
    [this |-> get_info_without_subspecs(s), subspecifier |-> None]

(***************************************************************************)
(* Specifier::get_info: the trait default (lib.rs 137-142) for a terminal, *)
(* self_0_is_subspecifier! (lib.rs 210-215) for WsUpgrade.                 *)
(***************************************************************************)
RECURSIVE get_info(_)
get_info(s) ==
    IF s.kind = "WsUpgrade"
    THEN [this |-> get_info_without_subspecs(s), subspecifier |-> Some(get_info(s.inner))]
    ELSE [this |-> get_info_without_subspecs(s), subspecifier |-> None]

NoTree == [kind |-> "Terminal", multiconnect |-> FALSE, global |-> FALSE, typ |-> "Other"]

InfoIdle ==
    /\ tree = NoTree
    /\ coll = [pc |-> "idle", r |-> <<>>, ss |-> None]

InfoStart ==
    /\ tree \in Trees(MaxWrap)
    /\ coll = [pc |-> "start", r |-> <<>>, ss |-> None]

(***************************************************************************)
(* SpecifierInfo::collect on tree.get_info(), lib.rs 111-121.              *)
(***************************************************************************)
\* r = vec![]; r.push(self.this); ss = self.clone().subspecifier
CollectStart ==
    /\ coll.pc = "start"
    /\ LET self == get_info(tree)
       IN  coll' = [pc |-> "loop", r |-> <<self.this>>, ss |-> self.subspecifier]
    /\ UNCHANGED tree
    /\ UNCHANGED <<debtVars, sessVars, serveVars>>

\* while let Some(sub) = ss { r.push(sub.this); ss = sub.subspecifier; }
CollectLoop ==
    /\ coll.pc = "loop"
    /\ coll.ss # None
    /\ LET sub == coll.ss[1]
       IN  coll' = [pc |-> "loop", r |-> Append(coll.r, sub.this), ss |-> sub.subspecifier]
    /\ UNCHANGED tree
    /\ UNCHANGED <<debtVars, sessVars, serveVars>>

\* the loop ends and r is returned
CollectReturn ==
    /\ coll.pc = "loop"
    /\ coll.ss = None
    /\ coll' = [coll EXCEPT !.pc = "done"]
    /\ UNCHANGED tree
    /\ UNCHANGED <<debtVars, sessVars, serveVars>>

NextInfo == CollectStart \/ CollectLoop \/ CollectReturn

(***************************************************************************)
(* Properties of ReadDebt.                                                 *)
(***************************************************************************)
DebtContent == IF debt = None THEN <<>> ELSE debt[1]

\* C1: under the reader protocol, for every pattern of buffer sizes, the bytes
\* returned to the caller followed by the pending debt are exactly the chunks
\* delivered so far, in order: no byte is lost, duplicated or reordered, and
\* once the debt is drained the returned bytes equal the concatenated chunks.
C1_NoByteLostOrDuplicated ==
    /\ received \o DebtContent = delivered
    /\ (debt = None => received = delivered)

C1_Witness ==
    /\ nchunks >= 2
    /\ debt = None
    /\ lastcall.kind = "debt"
    /\ Len(received) > MaxBuf

\* C19: under the reader protocol the assertion of process_message never
\* fails, neither on a fresh chunk nor on the call check_debt makes itself,
\* whatever that call leaves pending again; the pending debt is one buffer,
\* never an empty one; and a fresh chunk is taken from the source only in a
\* state where no debt is pending.
C19_DebtDrainedFirst ==
    /\ []( ~panicked )
    /\ []( debt # None => (Len(debt) = 1 /\ Len(debt[1]) >= 1) )
    /\ [][ nchunks' # nchunks => debt = None ]_vars

C19_Witness ==
    /\ ~panicked
    /\ lastcall.kind = "debt"
    /\ lastcall.ret >= 1
    /\ debt # None
    /\ nchunks = 1

\* C21: a pending debt buffer is never empty; a read made while debt is
\* pending takes nothing from the source and is answered by check_debt:
\* with a non-empty buffer it returns min(buf.len(), debt length) >= 1 bytes
\* and the debt gets shorter by as many, with an empty buffer it returns 0
\* and leaves the debt as it was; and when the reader keeps being read with
\* a non-empty buffer, pending debt is eventually drained.
C21_DebtShrinksUntilDrained ==
    /\ []( debt # None => Len(debt[1]) >= 1 )
    /\ [][ debt # None =>
              /\ lastcall'.kind = "debt"
              /\ nchunks' = nchunks /\ delivered' = delivered
              /\ lastcall'.buflen >= 1 =>
                    /\ lastcall'.ret >= 1
                    /\ lastcall'.ret = Min(lastcall'.buflen, Len(debt[1]))
                    /\ Len(DebtContent') = Len(debt[1]) - lastcall'.ret
                    /\ Len(received') = Len(received) + lastcall'.ret
              /\ lastcall'.buflen = 0 =>
                    /\ lastcall'.ret = 0
                    /\ debt' = debt
                    /\ received' = received ]_vars
    /\ (debt # None) ~> (debt = None)

C21_Witness ==
    /\ delivered = <<1, 2, 3>>
    /\ received = delivered
    /\ debt = None
    /\ lastcall = [kind |-> "debt", ret |-> 1, buflen |-> 1]

(***************************************************************************)
(* Properties of Session::run.                                             *)
(***************************************************************************)
Completed(tr) == tr.st \in {"finished", "failed"}

\* C2: with unidirectional, unidirectional_reverse and exit_on_eof all false,
\* the run future is successful only when both the forward and the reverse
\* Transfer have completed; it is never successful while one is still copying.
C2_JoinWaitsForBoth ==
    (~opts.unif /\ ~opts.unir /\ ~opts.eeof /\ run = "ok")
        => (f1.st = "finished" /\ f2.st = "finished")

C2_Witness ==
    /\ ~opts.unif /\ ~opts.unir /\ ~opts.eeof
    /\ run = "ok"
    /\ f1.moved > 0 /\ f2.moved > 0

\* C3: with exit_on_eof set and both unidirectional flags clear, the run
\* future is resolved exactly when the first Transfer has completed, and at
\* that point the other Transfer has been dropped: one Transfer completed,
\* the other is dropped and never completes.
C3_SelectFirstWins ==
    (~opts.unif /\ ~opts.unir /\ opts.eeof /\ run # "new")
        => /\ (run \in {"ok", "err"}) <=> (Completed(f1) \/ Completed(f2))
           /\ ~(Completed(f1) /\ Completed(f2))
           /\ Completed(f1) => f2.st = "dropped"
           /\ Completed(f2) => f1.st = "dropped"
           /\ run = "pending" => (f1.st = "copying" /\ f2.st = "copying")

C3_Witness ==
    /\ ~opts.unif /\ ~opts.unir /\ opts.eeof
    /\ run = "ok"
    /\ f2.st = "finished" /\ f1.st = "dropped" /\ f1.moved > 0

\* C4: the unidirectional flags decide the dispatch whatever exit_on_eof is.
\* unidirectional only: the reverse Transfer is dropped by run() with no byte
\* moved, and run is resolved exactly when the forward Transfer has completed;
\* unidirectional_reverse only: the same with the directions exchanged;
\* both: both Transfers are dropped with no byte moved, run never fails and
\* the first poll resolves it with success.
C4_Dispatch ==
    run # "new" =>
        /\ (opts.unif /\ ~opts.unir) =>
              /\ f2.st = "dropped" /\ f2.moved = 0 /\ f2.shut = 0
              /\ (run \in {"ok", "err"}) <=> Completed(f1)
              /\ run = "ok" <=> f1.st = "finished"
        /\ (~opts.unif /\ opts.unir) =>
              /\ f1.st = "dropped" /\ f1.moved = 0 /\ f1.shut = 0
              /\ (run \in {"ok", "err"}) <=> Completed(f2)
              /\ run = "ok" <=> f2.st = "finished"
        /\ (opts.unif /\ opts.unir) =>
              /\ f1.st = "dropped" /\ f1.moved = 0 /\ f1.shut = 0
              /\ f2.st = "dropped" /\ f2.moved = 0 /\ f2.shut = 0
              /\ run \in {"pending", "ok"}
              /\ run = "pending" => \A o1, o2 \in CopyOutcome :
                                       run_poll(opts, f1, f2, o1, o2).res = "ok"

C4_Witness ==
    /\ opts.unif /\ ~opts.unir /\ opts.eeof
    /\ run = "ok"
    /\ f1.st = "finished" /\ f1.moved > 0

JoinFlags == ~opts.unif /\ ~opts.unir /\ ~opts.eeof
SelectFlags == ~opts.unif /\ ~opts.unir /\ opts.eeof

\* C13 (as claimed): a Transfer that was dropped without having completed
\* has had shutdown called on its writable half.
C13_DroppedIsShutDown ==
    /\ f1.st = "dropped" => f1.shut >= 1
    /\ f2.st = "dropped" => f2.shut >= 1

\* C13 (amended): a Transfer dropped without having completed (the loser of
\* the select, the direction a unidirectional flag discards, the survivor of
\* a failed join) has both halves released and never moves again, and
\* shutdown has NOT been called on its writable half.
C13_DroppedIsReleasedOnly ==
    /\ [](f1.st = "dropped" => (f1.rel /\ f1.shut = 0))
    /\ [](f2.st = "dropped" => (f2.rel /\ f2.shut = 0))
    /\ [][(f1.st = "dropped" => f1' = f1) /\ (f2.st = "dropped" => f2' = f2)]_vars

C13_Witness ==
    /\ JoinFlags
    /\ run = "err"
    /\ f1.st = "failed"
    /\ f2.st = "dropped" /\ f2.moved > 0 /\ f2.rel /\ f2.shut = 0

\* C14: a direction whose copy completed successfully has had shutdown
\* called on its writable half exactly once and both halves released, in the
\* same poll, so no later than the run future resolves on its account; no
\* other direction has had shutdown called; a successful run (outside the
\* arm that runs nothing) has such a direction.
C14_FinishedIsShutDownOnce ==
    /\ f1.shut = (IF f1.st = "finished" THEN 1 ELSE 0)
    /\ f2.shut = (IF f2.st = "finished" THEN 1 ELSE 0)
    /\ f1.st = "finished" => f1.rel
    /\ f2.st = "finished" => f2.rel
    /\ (run = "ok" /\ ~(opts.unif /\ opts.unir))
          => (f1.st = "finished" \/ f2.st = "finished")

C14_Witness ==
    /\ SelectFlags
    /\ run = "ok"
    /\ f1.st = "finished" /\ f1.shut = 1 /\ f1.rel /\ f1.moved > 0
    /\ f2.shut = 0

\* C15: with all three flags false the run future has failed exactly when a
\* direction has failed: it fails in the poll in which the first error
\* occurs (it is never pending with a failed direction), only one direction
\* ever fails, and the other one is then dropped unless it had already
\* finished.
C15_JoinFailsAtFirstError ==
    (JoinFlags /\ run # "new") =>
        /\ (run = "err") <=> (f1.st = "failed" \/ f2.st = "failed")
        /\ ~(f1.st = "failed" /\ f2.st = "failed")
        /\ f1.st = "failed" => f2.st \in {"dropped", "finished"}
        /\ f2.st = "failed" => f1.st \in {"dropped", "finished"}
        /\ run = "pending" =>
              (\A o2 \in CopyOutcome :
                  (f1.st = "copying") =>
                      (LET p == run_poll(opts, f1, f2, "error", o2)
                       IN  p.res = "err" /\ p.b.moved = f2.moved /\ p.b.st # "copying"))

C15_Witness ==
    /\ JoinFlags
    /\ run = "err"
    /\ f2.st = "failed"
    /\ f1.st = "dropped" /\ f1.moved > 0

\* C16: with exit_on_eof set and both unidirectional flags clear, the result
\* of run is the result of the direction that ended first: success with that
\* direction finished, the error with that direction failed, the other being
\* dropped; in a poll that finds both directions ended, the forward one is
\* polled first and alone decides.
C16_SelectOutcomeIsWinners ==
    (SelectFlags /\ run # "new") =>
        /\ run = "ok" => \/ (f1.st = "finished" /\ f2.st = "dropped")
                         \/ (f2.st = "finished" /\ f1.st = "dropped")
        /\ run = "err" => \/ (f1.st = "failed" /\ f2.st = "dropped")
                          \/ (f2.st = "failed" /\ f1.st = "dropped")
        /\ run = "pending" =>
              \A o2 \in CopyOutcome :
                  /\ run_poll(opts, f1, f2, "eof", o2).res = "ok"
                  /\ run_poll(opts, f1, f2, "error", o2).res = "err"
                  /\ run_poll(opts, f1, f2, "notready", "error").res = "err"
                  /\ run_poll(opts, f1, f2, "notready", "eof").res = "ok"

C16_Witness ==
    /\ SelectFlags
    /\ run = "err"
    /\ f2.st = "failed"
    /\ f1.st = "dropped" /\ f1.moved > 0

(***************************************************************************)
(* Properties of serve.                                                    *)
(***************************************************************************)
\* serve has been called
Serving == stage # "idle"
MultiArm == Serving /\ serve_left(conf).kind = "ServeMultipleTimes"
OnceArm == Serving /\ serve_left(conf).kind = "ServeOnce"
LeftElems == s1_construct(conf).elems
HasPeer(es) == \E k \in DOMAIN es : IsPeer(es[k])
FirstPeer(es) == CHOOSE k \in DOMAIN es : IsPeer(es[k]) /\ \A j \in 1..(k - 1) : ~IsPeer(es[j])

SessionFailsInStep(i) ==
    /\ i \in DOMAIN sessions
    /\ sessions[i].st # "err"
    /\ sessions'[i].st = "err"

\* C5: in the ServeMultipleTimes arm, on_error has been called exactly once
\* for every failed session (right side failed or run returned an error) and
\* never for any other; the step in which a session fails changes neither the
\* accept loop (stage, position in the left stream, result of the top-level
\* future, its own on_error calls) nor any other session; and while the left
\* stream has elements left the accept step stays enabled whatever the
\* sessions did.
C5_SessionErrorIsolated ==
    /\ [](MultiArm =>
            /\ \A i \in DOMAIN sessions :
                  sessions[i].errs = IF sessions[i].st = "err" THEN 1 ELSE 0
            /\ (stage = "accepting" /\ lpos < Len(LeftElems)) => ENABLED MultiAccept)
    /\ [][\A i \in 1..MaxLeft :
            (MultiArm /\ SessionFailsInStep(i)) =>
                /\ UNCHANGED <<stage, lpos, top, onerr, lopen, ps>>
                /\ Len(sessions') = Len(sessions)
                /\ \A j \in DOMAIN sessions : j # i => sessions'[j] = sessions[j]]_vars

C5_Witness ==
    /\ MultiArm
    /\ Len(sessions) = 3
    /\ sessions[1].st = "err" /\ sessions[1].errs = 1
    /\ sessions[2].st = "running"
    /\ sessions[3].st = "ok"
    /\ top = "pending"

\* C6 (as claimed): in the ServeMultipleTimes arm a failed left element does
\* not stop the left stream: when the accept loop has stopped, every
\* successful element of the left stream has been turned into a session.
C6_LeftStreamContinues ==
    (MultiArm /\ stage = "done") =>
        \A k \in DOMAIN LeftElems :
            IsPeer(LeftElems[k]) => \E i \in DOMAIN sessions : sessions[i].left = k

\* C7 (as claimed): in the ServeMultipleTimes arm the top-level future never
\* completes with an error.
C7_TopNeverFails == MultiArm => top \in {"pending", "ok"}

\* C8: with oneshot and a multi-connect left, at most one element is ever
\* taken from the left stream, the stream is dropped once that element has
\* arrived, s2.construct is called at most once and at most one Session is
\* created; when the first left element is a Peer, that one Session exists
\* from then on (and runs as soon as the right side succeeds).
C8_OneshotSingleSession ==
    (conf.oneshot /\ Serving /\ s1_construct(conf).kind = "ServeMultipleTimes") =>
        /\ lpos <= 1
        /\ Len(sessions) <= 1
        /\ nright <= 1
        /\ stage # "left" => ~lopen
        /\ (LeftElems # <<>> /\ IsPeer(LeftElems[1]) /\ stage # "left")
              => (Len(sessions) = 1 /\ sessions[1].left = 1)

C8_Witness ==
    /\ conf.oneshot /\ Serving
    /\ s1_construct(conf).kind = "ServeMultipleTimes"
    /\ Len(LeftElems) = 3
    /\ \A k \in 1..3 : IsPeer(LeftElems[k])
    /\ Len(sessions) = 1 /\ sessions[1].st = "ok"
    /\ top = "ok"

\* C9 (as claimed): get_only_first_conn on a ServeMultipleTimes stream that
\* holds at least one successful element resolves to the first successful
\* element and takes nothing after it: once serve's collapsed left future has
\* resolved, the Session is made of that element.
C9_FirstSuccessfulElement ==
    (conf.oneshot /\ Serving /\ s1_construct(conf).kind = "ServeMultipleTimes"
        /\ HasPeer(LeftElems) /\ stage # "left") =>
            /\ Len(sessions) = 1
            /\ sessions[1].left = FirstPeer(LeftElems)
            /\ lpos = FirstPeer(LeftElems)

\* C9 (amended): get_only_first_conn on a ServeMultipleTimes stream with at
\* least one element resolves with the FIRST element of the stream, whatever
\* it is: with the Peer if it is a success, with the error if it is a failure
\* (also when successful elements follow), and it takes no element after the
\* first; on a ServeOnce constructor it returns the future it holds.
C9_FirstElement ==
    /\ (Serving /\ s1_construct(conf).kind = "ServeOnce")
          => get_only_first_conn(s1_construct(conf)) = s1_construct(conf).fut
    /\ (conf.oneshot /\ Serving /\ s1_construct(conf).kind = "ServeMultipleTimes"
          /\ LeftElems # <<>> /\ stage # "left") =>
            /\ lpos = 1
            /\ IsPeer(LeftElems[1]) => (Len(sessions) = 1 /\ sessions[1].left = 1)
            /\ IsErr(LeftElems[1]) =>
                  (sessions = <<>> /\ top = "err" /\ onerr = 1 /\ stage = "done")

C9_Witness ==
    /\ conf.oneshot /\ Serving
    /\ s1_construct(conf).kind = "ServeMultipleTimes"
    /\ Len(LeftElems) >= 2
    /\ IsErr(LeftElems[1]) /\ IsPeer(LeftElems[2])
    /\ stage = "done" /\ top = "err" /\ lpos = 1

\* C10: in the ServeOnce arm ProgramState is alive while the right side is
\* awaited and while the Session runs; it is dropped only when the top-level
\* future has completed, and it is dropped at that moment when the future
\* completes with success or with an error (after a panic it stays in the
\* future until the owner drops it).
C10_PsOutlivesSession ==
    OnceArm =>
        /\ ps = "dropped" => stage = "done"
        /\ (stage = "done" /\ top \in {"ok", "err"}) => ps = "dropped"
        /\ \A i \in DOMAIN sessions :
              sessions[i].st \in {"right", "running"} => ps = "alive"

C10_Witness ==
    /\ OnceArm
    /\ nright = 1
    /\ sessions # <<>> /\ sessions[1].st = "running"
    /\ top = "pending"
    /\ ps = "alive"

\* C11 (as claimed): in the ServeMultipleTimes arm ProgramState is never
\* dropped while a spawned Session is still in flight (awaiting its right
\* side or running).
C11_PsOutlivesSpawnedSessions ==
    MultiArm =>
        (ps = "dropped" =>
            \A i \in DOMAIN sessions : sessions[i].st \notin {"right", "running"})

\* C12: in the ServeOnce arm s2.construct is not called before the left
\* future has yielded its Peer and is called at most once; when the left
\* future fails, s2.construct is never called, no Session is created,
\* on_error has been called exactly once and the top-level future has failed.
C12_RightAfterLeft ==
    OnceArm =>
        /\ nright <= 1
        /\ stage = "left" => (nright = 0 /\ sessions = <<>> /\ onerr = 0)
        /\ nright = 1 => (IsPeer(serve_left(conf).fut.result) /\ Len(sessions) = 1)
        /\ (IsErr(serve_left(conf).fut.result) /\ stage # "left") =>
              /\ nright = 0
              /\ sessions = <<>>
              /\ onerr = 1
              /\ top = "err"
              /\ stage = "done"

C12_Witness ==
    /\ OnceArm
    /\ ~conf.oneshot
    /\ serve_left(conf).fut.result = "handshake_err"
    /\ stage = "done"
    /\ top = "err" /\ onerr = 1 /\ nright = 0

\* what map(ws_upgrade_peer) must turn one produced element into: f's result
\* for a Peer, the element itself for an error
MappedElem(e, m) ==
    /\ IsPeer(e) => m = ws_upgrade_peer(e)
    /\ IsErr(e) => m = e

\* C18: for a left side built by WsUpgrade, i.e. inner.map(ws_upgrade_peer):
\* the mapped constructor has the variant of the inner one; a ServeOnce
\* future resolves with f's result for a Peer and with the producer's error
\* otherwise; a ServeMultipleTimes stream has the same length and end, and
\* at each position f's result for a Peer and the same error element for
\* an error.  In serve, an error of the mapped future is the error of the
\* top-level future with no Session made, and a Session exists for exactly
\* the polled stream positions whose inner Peer f upgraded.
C18_MapPreservesVariant ==
    (Serving /\ conf.wrapped) =>
        LET pc == conf.raw
            m  == s1_construct(conf)
        IN  /\ m.kind = pc.kind
            /\ pc.kind = "ServeOnce" =>
                  /\ MappedElem(pc.fut.result, m.fut.result)
                  /\ m.fut.consumed = pc.fut.consumed
                  /\ (stage # "left" /\ IsErr(m.fut.result)) =>
                        (top = "err" /\ sessions = <<>> /\ nright = 0)
                  /\ (stage # "left" /\ IsPeer(m.fut.result)) => Len(sessions) = 1
            /\ pc.kind = "ServeMultipleTimes" =>
                  /\ Len(m.elems) = Len(pc.elems)
                  /\ m.ends = pc.ends
                  /\ \A i \in DOMAIN pc.elems : MappedElem(pc.elems[i], m.elems[i])
                  /\ ~conf.oneshot =>
                        \A i \in 1..lpos :
                            (pc.elems[i] = "peer") <=>
                                (\E k \in DOMAIN sessions : sessions[k].left = i)

C18_Witness ==
    /\ conf.wrapped /\ ~conf.oneshot
    /\ conf.raw.kind = "ServeMultipleTimes"
    /\ conf.raw.elems = <<"peer", "peer_badreq", "connect_err">>
    /\ LeftElems = <<"ws_peer", "handshake_err", "connect_err">>
    /\ lpos = 2 /\ Len(sessions) = 1 /\ top = "err"

\* the positions among the first n elements of the left stream that hold a Peer
PeersUpTo(n) == {i \in 1..n : IsPeer(LeftElems[i])}

\* C20: in the ServeMultipleTimes arm s2.construct has been called once for
\* each left Peer accepted so far, each of which has its own session; the
\* sessions stand in accept order, the k-th being that of the k-th Peer of
\* the left stream; an accept step leaves the sessions it found as they are
\* and a step of one session changes no other session and not the position
\* of the accept loop; and a session waiting for its right side or running
\* can take its next step whatever the state of the others and of the
\* accept loop.
C20_RightPerAcceptedPeer ==
    /\ [](MultiArm =>
            /\ nright = Len(sessions)
            /\ nright = Cardinality(PeersUpTo(lpos))
            /\ \A k \in DOMAIN sessions :
                  /\ sessions[k].left \in PeersUpTo(lpos)
                  /\ Cardinality(PeersUpTo(sessions[k].left)) = k
            /\ \A k \in DOMAIN sessions :
                  /\ sessions[k].st = "right" =>
                        ENABLED (\E rc \in RightConstructors : TaskRight(k, rc))
                  /\ sessions[k].st = "running" => ENABLED TaskFinish(k, "ok"))
    /\ [][MultiArm =>
            /\ lpos' # lpos =>
                  (\A k \in DOMAIN sessions : sessions'[k] = sessions[k])
            /\ \A k \in DOMAIN sessions :
                  sessions'[k] # sessions[k] =>
                      /\ lpos' = lpos /\ nright' = nright
                      /\ Len(sessions') = Len(sessions)
                      /\ \A j \in DOMAIN sessions : j # k => sessions'[j] = sessions[j]]_vars

C20_Witness ==
    /\ MultiArm
    /\ LeftElems = <<"ws_peer", "ws_peer", "ws_peer">>
    /\ nright = 3
    /\ Len(sessions) = 3
    /\ sessions[1].st = "running"
    /\ sessions[2].st = "right"
    /\ sessions[3].st = "ok"

(***************************************************************************)
(* Properties of SpecifierInfo.                                            *)
(***************************************************************************)
RECURSIVE Depth(_)
Depth(s) == IF s.kind = "WsUpgrade" THEN 1 + Depth(s.inner) ELSE 1

\* the i-th node of the tree, the root being the first
RECURSIVE NodeAt(_, _)
NodeAt(s, i) == IF i = 1 THEN s ELSE NodeAt(s.inner, i - 1)

\* C17: for a tree of WsUpgrade wrappers around a terminal, what collect has
\* pushed so far is the own info of the nodes from the root downwards, and
\* the vector it returns has one entry per node of the tree: its length is
\* the depth of the tree and its i-th entry is the own info of the i-th node
\* counted from the root.
C17_CollectRootToLeaf ==
    /\ coll.pc \in {"loop", "done"} =>
          /\ Len(coll.r) >= 1 /\ Len(coll.r) <= Depth(tree)
          /\ \A i \in 1..Len(coll.r) :
                coll.r[i] = get_info_without_subspecs(NodeAt(tree, i))
    /\ coll.pc = "done" => Len(coll.r) = Depth(tree)

C17_Witness ==
    /\ coll.pc = "done"
    /\ Depth(tree) = 3
    /\ Len(coll.r) = 3
    /\ coll.r[1].multiconnect /\ coll.r[1].typ = "Other"
    /\ coll.r[3].typ = "Stdio" /\ coll.r[3].uses_global_state

(***************************************************************************)
(* The specifications.                                                     *)
(***************************************************************************)
InitDebt == DebtStart /\ SessionIdle /\ ServeIdle /\ InfoIdle

SpecDebt == InitDebt /\ [][NextDebt]_vars

\* the reader's caller reads in a loop with a buffer of non-zero size
SpecDebtFair == InitDebt /\ [][NextDebt]_vars /\ WF_vars(DrainRead)

InitSession == DebtIdle /\ SessionStart /\ ServeIdle /\ InfoIdle

SpecSession == InitSession /\ [][NextSession]_vars

InitServe == DebtIdle /\ SessionIdle /\ ServeStart /\ InfoIdle

SpecServe == InitServe /\ [][NextServe]_vars

InitInfo == DebtIdle /\ SessionIdle /\ ServeIdle /\ InfoStart

SpecInfo == InitInfo /\ [][NextInfo]_vars

====
